---- MODULE Spec2Model ----
(***************************************************************************)
(* Load_Picture (WIN32LIB/IFF/LOADPICT.CPP): the IFF picture loader, its   *)
(* ByteRun body decoder and the ILBM -> MCGA deinterleaver, as a state     *)
(* machine.  One behaviour is one call of Load_Picture; the file's content *)
(* is drawn when the code reads it.                                        *)
(*                                                                         *)
(* Scale.  ILBM_To_MCGA hard-codes a 320 x 200 picture: 200 rows of 40     *)
(* bytes per plane row, and Mem_Copy moves 64000 bytes.  The model keeps   *)
(* the structure and scales the two dimensions to PresumedRows rows of     *)
(* PresumedPlaneBytes bytes, so the page buffers hold                      *)
(* 8 * PresumedPlaneBytes * PresumedRows bytes instead of 64000.           *)
(***************************************************************************)
EXTENDS Integers, Sequences, FiniteSets, TLC

\* ---------------------------------------------------------------- bounds
\* Rows ILBM_To_MCGA always converts (200 in the source, line 155).
PresumedRows == 2
\* Bytes of one plane row ILBM_To_MCGA always assumes (40 in the source).
PresumedPlaneBytes == 2
\* Longest run sequence a BODY is built from.
MaxRuns == 3
\* Longest CMAP chunk drawn.
MaxCmap == 7
\* Bytes of the caller's palette buffer.
PaletteSize == 12

\* ------------------------------------------------------- program constants
FALSE_ == 0
\* Load_Uncompress size divisor of the non-IFF fallback.
UncompressPlaneSize == 8000

Byte == 0..255
\* The null pointer: a buffer of no bytes.
NULL == << >>

\* Size of the caller's page buffers (destbuf.Get_Size(); "64K in size").
BufferSize == 8 * PresumedPlaneBytes * PresumedRows

Min(a, b) == IF a < b THEN a ELSE b
Pow2(n) == 2 ^ n
\* Bit n of byte b.
Bit(b, n) == (b \div Pow2(n)) % 2
\* A sequence read with the C convention: element 0 is the first.
At(s, i) == s[i + 1]

\* (signed char) b
SignedChar(b) == IF b >= 128 THEN b - 256 ELSE b
\* (short) x for a 16-bit pattern x
ToShort(x) == IF x >= 32768 THEN x - 65536 ELSE x
\* the 16-bit pattern of a short
FromShort(x) == IF x < 0 THEN x + 65536 ELSE x

\* ------------------------------------------------------------ BMHD chunk
\* A two-byte field of a structure read raw from the file on the
\* little-endian host: the first byte is the low byte.
HostShort(raw, off) == At(raw, off) + 256 * At(raw, off + 1)

\* Reverse_Short: exchanges the two bytes of a 16-bit value.
Reverse_Short(x) == (x % 256) * 256 + (x \div 256)

\* The structure as Read_Iff_Chunk leaves it in memory (no conversion yet).
RawHeader(raw) ==
  [ W |-> HostShort(raw, 0), H |-> HostShort(raw, 2),
    X |-> ToShort(HostShort(raw, 4)), Y |-> ToShort(HostShort(raw, 6)),
    BPlanes |-> At(raw, 8), Masking |-> At(raw, 9),
    Compression |-> At(raw, 10), pad |-> At(raw, 11),
    Transparent |-> HostShort(raw, 12),
    XAspect |-> At(raw, 14), YAspect |-> At(raw, 15),
    PageWidth |-> ToShort(HostShort(raw, 16)),
    PageHeight |-> ToShort(HostShort(raw, 18)) ]

\* "Perform necessary IBM conversions to the data": W, H, X, Y, PageWidth and
\* PageHeight are byte-reversed, the two aspect bytes are exchanged, and
\* Transparent is left as read.
ConvertHeader(h) ==
  [ h EXCEPT !.W = Reverse_Short(h.W), !.H = Reverse_Short(h.H),
             !.X = ToShort(Reverse_Short(FromShort(h.X))),
             !.Y = ToShort(Reverse_Short(FromShort(h.Y))),
             !.XAspect = h.YAspect, !.YAspect = h.XAspect,
             !.PageWidth = ToShort(Reverse_Short(FromShort(h.PageWidth))),
             !.PageHeight = ToShort(Reverse_Short(FromShort(h.PageHeight))) ]

\* Mutant of MaskingRejected: Lasso is let through.
MaskingRejected_AllowLasso(m) == m > 3
\* if (bmhd.Masking > 2) return FALSE;
MaskingRejected(m) == m > 2

\* Mutant of CompressionRejected: the compression validation is lost.
CompressionRejected_Never(c) == FALSE
\* if (bmhd.Compression > 1) return FALSE;
CompressionRejected(c) == c > 1

\* The header before Read_Iff_Chunk fills it (never read in that state).
UnreadHeader == RawHeader([i \in 1..20 |-> 0])

\* ------------------------------------------------------- file content
\* A 16-bit value as the IFF file stores it: high byte first.
BigEndian(v) == << v \div 256, v % 256 >>
\* The big-endian reading of the two file bytes at off.
FileShort(raw, off) == At(raw, off) * 256 + At(raw, off + 1)

\* The 20 bytes of a BMHD chunk holding the given field values.
MakeBMHD(f) ==
  BigEndian(f.W) \o BigEndian(f.H) \o BigEndian(FromShort(f.X))
  \o BigEndian(FromShort(f.Y))
  \o << f.BPlanes, f.Masking, f.Compression, 0 >>
  \o BigEndian(f.Transparent) \o << f.XAspect, f.YAspect >>
  \o BigEndian(FromShort(f.PageWidth)) \o BigEndian(FromShort(f.PageHeight))

\* A chunk of the file: present or not, and its payload.
Chunk(p, d) == << p, d >>
ChunkPresent(c) == c[1]
ChunkData(c) == c[2]
NoChunk == Chunk(FALSE, << >>)

\* Read_Iff_Chunk: the payload bytes obtained, at most maxsize of them; none
\* when the chunk is not found.  Its return value is their number.
Read_Iff_Chunk(chunk, maxsize) ==
  IF ChunkPresent(chunk)
  THEN SubSeq(ChunkData(chunk), 1, Min(Len(ChunkData(chunk)), maxsize))
  ELSE << >>

\* ------------------------------------------------------ ByteRun streams
\* A BODY stream is drawn as a sequence of runs: a no-op code, a literal run
\* carrying its bytes, or a replicate run of n copies of v.
\* (kind, bytes it stands for, replicated value, literal bytes)
NoopRun == << "noop", 0, 0, << >> >>
LitRun(d) == << "lit", Len(d), 0, d >>
RepRun(n, v) == << "rep", n, v, << >> >>
RunKind(r) == r[1]
RunValue(r) == r[3]
RunData(r) == r[4]

\* Bytes the run stands for.
RunLen(r) == r[2]
\* The run as the file stores it: control byte, then its data.
EncodeRun(r) ==
  IF RunKind(r) = "noop" THEN << 128 >>
  ELSE IF RunKind(r) = "lit" THEN << RunLen(r) - 1 >> \o RunData(r)
  ELSE << 256 - (RunLen(r) - 1), RunValue(r) >>
\* The raw bytes the run stands for.
ExpandRun(r) ==
  IF RunKind(r) = "lit" THEN RunData(r)
  ELSE IF RunKind(r) = "rep" THEN [i \in 1..RunLen(r) |-> RunValue(r)]
  ELSE << >>

RECURSIVE Encode(_)
Encode(rs) == IF rs = << >> THEN << >> ELSE EncodeRun(Head(rs)) \o Encode(Tail(rs))
RECURSIVE Expand(_)
Expand(rs) == IF rs = << >> THEN << >> ELSE ExpandRun(Head(rs)) \o Expand(Tail(rs))
RECURSIVE TotalLen(_)
TotalLen(rs) == IF rs = << >> THEN 0 ELSE RunLen(Head(rs)) + TotalLen(Tail(rs))

\* The runs cut the stream into rows of exactly `budget` bytes, `rows` of them.
WellFormed(rs, budget, rows) ==
  /\ TotalLen(rs) = rows * budget
  /\ \A r \in 1..rows : \E i \in 0..Len(rs) : TotalLen(SubSeq(rs, 1, i)) = r * budget

\* Some run is longer than what is left of its row.
RECURSIVE OverBudget(_, _, _)
OverBudget(rs, left, budget) ==
  IF rs = << >> \/ budget = 0 THEN FALSE
  ELSE IF RunLen(Head(rs)) > left THEN TRUE
  ELSE OverBudget(Tail(rs),
                  IF left = RunLen(Head(rs)) THEN budget ELSE left - RunLen(Head(rs)),
                  budget)

DataBytes == {1, 128}
RunAlphabet ==
  {NoopRun} \cup {LitRun(<< a >>) : a \in DataBytes}
  \cup {LitRun(<< q[1], q[2] >>) : q \in {x \in DataBytes \X DataBytes : x[1] # x[2]}}
  \cup {RepRun(2, v) : v \in DataBytes} \cup {RepRun(3, 1)}
RunSeqs(n) == UNION {[1..k -> RunAlphabet] : k \in 0..n}

\* What a BODY read draws: the chunk, and what it was built from.
BodyInput(chunk, rs, raster) == << chunk, rs, raster >>
GivenChunk(inp) == inp[1]
GivenRuns(inp) == inp[2]
GivenRaster(inp) == inp[3]
RunBodies(n) == {BodyInput(Chunk(TRUE, Encode(rs)), rs, << >>) : rs \in RunSeqs(n)}
NoBody == BodyInput(NoChunk, << >>, << >>)

\* ------------------------------------------------------------- the state
VARIABLES
  pc,          \* position in Load_Picture
  stale,       \* the byte the caller's buffers held before the call
  palette,     \* the caller's palette buffer, or NULL
  scratchbuf,  \* scratchbuf (the decoder's output, `dest` walks it)
  destbuf,     \* destbuf (the BODY is read into it, `src` walks it)
  handles,     \* file handles the call has opened and not closed
  formtype,    \* FORM_ILBM / FORM_PBM
  bmhd,        \* the header structure
  rawhdr,      \* the 20 BMHD bytes of the file (history)
  cmap,        \* the CMAP bytes obtained (history)
  body,        \* the BODY bytes obtained (history)
  given,       \* what the BODY was built from (history)
  src, dest, counter, index,
  rowBase,     \* `dest` when the current row began (history)
  rowOut,      \* bytes written to the scratch buffer by each finished row
  palWritten,  \* how far dest2 advanced over the palette buffer
  decoded,     \* the row loop was entered
  conv,        \* the format conversion that ran, and its cursor advances
  reads,       \* the chunks Read_Iff_Chunk was called for, in order (history)
  ret, exitAt  \* the value returned and the return statement taken

vars == << pc, stale, palette, scratchbuf, destbuf, handles, formtype, bmhd,
           rawhdr, cmap, body, given, src, dest, counter, index, rowBase,
           rowOut, palWritten, decoded, conv, reads, ret, exitAt >>

Buffer(b) == [i \in 0..(BufferSize - 1) |-> b]
NoConv == [ran |-> FALSE, kind |-> "none", src |-> 0, dst |-> 0]

PaletteBuffer(b) == [i \in 0..(PaletteSize - 1) |-> b]
\* The palette arguments a caller passes: NULL, or a buffer.
PaletteArguments(withPalette, b) ==
  IF withPalette THEN {NULL, PaletteBuffer(b)} ELSE {NULL}

\* The state at the call: the buffers hold what the caller left in them.
\* (withPalette: the caller may pass a palette buffer.)
InitWith(withPalette, Stales) ==
  /\ pc = "start"
  /\ stale \in Stales
  /\ palette \in PaletteArguments(withPalette, stale)
  /\ scratchbuf = Buffer(stale)
  /\ destbuf = Buffer(stale)
  /\ handles = 0
  /\ formtype = "none"
  /\ bmhd = UnreadHeader
  /\ rawhdr = << >>
  /\ cmap = << >>
  /\ body = << >>
  /\ given = NoBody
  /\ src = 0 /\ dest = 0 /\ counter = 0 /\ index = 0
  /\ rowBase = 0
  /\ rowOut = << >>
  /\ palWritten = 0
  /\ decoded = FALSE
  /\ conv = NoConv
  /\ reads = << >>
  /\ ret = 0 /\ exitAt = "none"


\* return v; from the statement `where`.
Return(v, where) == ret' = v /\ exitAt' = where /\ pc' = "done"

\* A read or write outside a buffer: the outcome is undefined, the call's
\* result is not modelled further.
Overrun ==
  /\ pc' = "overrun"
  /\ UNCHANGED << stale, palette, scratchbuf, destbuf, handles, formtype, bmhd,
                  rawhdr, cmap, body, given, src, dest, counter, index,
                  rowBase, rowOut, palWritten, decoded, conv, reads, ret,
                  exitAt >>

\* ------------------------------------------------- Load_Picture, the steps
\* fh = Open_File(filename, READ); Read_File(fh, &ifftype, 4); Close_File(fh);
\* then the branch on ifftype != ID_FORM.
Probe ==
  /\ pc = "start"
  /\ \E opened \in BOOLEAN, isForm \in BOOLEAN :
       IF ~opened
       THEN /\ Return(FALSE_, "open_failed")
            /\ UNCHANGED handles
       ELSE /\ handles' = (handles + 1) - 1
            /\ pc' = IF isForm THEN "open_iff" ELSE "fallback"
            /\ UNCHANGED << ret, exitAt >>
  /\ UNCHANGED << stale, palette, scratchbuf, destbuf, formtype, bmhd, rawhdr,
                  cmap, body, given, src, dest, counter, index, rowBase,
                  rowOut, palWritten, decoded, conv, reads >>

\* Sizes the external Load_Uncompress reports.
UncompressSizes == {0, 8000, 64000}

\* return((int)Load_Uncompress(filename, scratchbuf, destbuf, palette) / 8000);
\* the loader itself is an external collaborator: only its result is drawn.
Fallback ==
  /\ pc = "fallback"
  /\ \E size \in UncompressSizes : Return(size \div UncompressPlaneSize, "fallback")
  /\ UNCHANGED << stale, palette, scratchbuf, destbuf, handles, formtype, bmhd,
                  rawhdr, cmap, body, given, src, dest, counter, index,
                  rowBase, rowOut, palWritten, decoded, conv, reads >>

\* fh = Open_Iff_File(filename); if (fh == WW_ERROR) return(FALSE);
OpenIff ==
  /\ pc = "open_iff"
  /\ \E opened \in BOOLEAN :
       IF opened
       THEN /\ handles' = handles + 1
            /\ pc' = "form_type"
            /\ UNCHANGED << ret, exitAt >>
       ELSE /\ Return(FALSE_, "iff_open_failed")
            /\ UNCHANGED handles
  /\ UNCHANGED << stale, palette, scratchbuf, destbuf, formtype, bmhd, rawhdr,
                  cmap, body, given, src, dest, counter, index, rowBase,
                  rowOut, palWritten, decoded, conv, reads >>

FormTags == {"ILBM", "PBM ", "8SVX"}

\* Read_File(fh, &ifftype, 4) and the ILBM / PBM / other branch.
ReadFormType(Tags) ==
  /\ pc = "form_type"
  /\ \E tag \in Tags :
       IF tag = "ILBM"
       THEN formtype' = "FORM_ILBM" /\ pc' = "bmhd" /\ UNCHANGED << ret, exitAt >>
       ELSE IF tag = "PBM "
       THEN formtype' = "FORM_PBM" /\ pc' = "bmhd" /\ UNCHANGED << ret, exitAt >>
       ELSE Return(FALSE_, "bad_form") /\ UNCHANGED formtype
  /\ UNCHANGED << stale, palette, scratchbuf, destbuf, handles, bmhd, rawhdr,
                  cmap, body, given, src, dest, counter, index, rowBase,
                  rowOut, palWritten, decoded, conv, reads >>

\* Read_Iff_Chunk(fh, ID_BMHD, &bmhd, sizeof(BitMapHeader_Type)), the IBM
\* conversions and the two validations.
ReadBMHD(Chunks) ==
  /\ pc = "bmhd"
  /\ \E ch \in Chunks :
       LET got == Read_Iff_Chunk(ch, 20) IN
       IF Len(got) # 0
       THEN LET h == ConvertHeader(RawHeader(got)) IN
            /\ bmhd' = h
            /\ rawhdr' = got
            /\ IF MaskingRejected(h.Masking) THEN Return(FALSE_, "masking")
               ELSE IF CompressionRejected(h.Compression)
               THEN Return(FALSE_, "compression")
               ELSE pc' = "palette" /\ UNCHANGED << ret, exitAt >>
       ELSE /\ Return(FALSE_, "no_bmhd")
            /\ UNCHANGED << bmhd, rawhdr >>
  /\ reads' = Append(reads, "BMHD")
  /\ UNCHANGED << stale, palette, scratchbuf, destbuf, handles, formtype,
                  cmap, body, given, src, dest, counter, index, rowBase,
                  rowOut, palWritten, decoded, conv >>

\* Mutant of PaletteByte: the colour byte is copied unshifted.
PaletteByte_Unshifted(b) == b
\* *dest2++ = *source++ >> 2;
PaletteByte(b) == b \div 4

\* pbytes = (1 << bmhd.BPlanes) * 3;
CmapBytesNeeded(h) == Pow2(h.BPlanes) * 3

\* if (palette) { ... Read_Iff_Chunk(fh, ID_CMAP, paletteptr, pbytes) ... }
LoadPalette(Chunks) ==
  /\ pc = "palette"
  /\ IF palette = NULL
     THEN /\ pc' = "body"
          /\ UNCHANGED << palette, cmap, palWritten, reads >>
     ELSE \E ch \in Chunks :
            LET got == Read_Iff_Chunk(ch, CmapBytesNeeded(bmhd))
                pbytes == Len(got)
            IN IF pbytes > PaletteSize
               THEN pc' = "overrun" /\ UNCHANGED << palette, cmap, palWritten, reads >>
               ELSE /\ reads' = Append(reads, "CMAP")
                    /\ palette' = [i \in DOMAIN palette |->
                                     IF i < pbytes THEN PaletteByte(At(got, i))
                                     ELSE palette[i]]
                    /\ cmap' = got
                    /\ palWritten' = pbytes
                    /\ pc' = "body"
  /\ UNCHANGED << stale, scratchbuf, destbuf, handles, formtype, bmhd, rawhdr,
                  body, given, src, dest, counter, index, rowBase, rowOut,
                  decoded, conv, ret, exitAt >>

\* Mutant of BodyObtained: the result of the read is not tested.
BodyObtained_Always(n) == TRUE
\* if (Read_Iff_Chunk(fh, ID_BODY, src, destbuf.Get_Size()))
BodyObtained(n) == n # 0

\* dest = scratchbuf.Get_Buffer(); src = destbuf.Get_Buffer(); and the BODY
\* read into destbuf.
ReadBody(Inputs) ==
  /\ pc = "body"
  /\ \E inp \in Inputs :
       LET got == Read_Iff_Chunk(GivenChunk(inp), BufferSize) IN
       /\ destbuf' = [i \in DOMAIN destbuf |->
                        IF i < Len(got) THEN At(got, i) ELSE destbuf[i]]
       /\ body' = got
       /\ given' = inp
       /\ pc' = IF BodyObtained(Len(got)) THEN "row" ELSE "close"
  /\ src' = 0 /\ dest' = 0 /\ index' = 0
  /\ reads' = Append(reads, "BODY")
  /\ UNCHANGED << stale, palette, scratchbuf, handles, formtype, bmhd, rawhdr,
                  cmap, counter, rowBase, rowOut, palWritten, decoded, conv,
                  ret, exitAt >>

\* ------------------------------------------------------- the BODY rows
\* counter = bmhd.BPlanes * (bmhd.W >> 3);
\* if (bmhd.Masking == 1) counter += bmhd.W >> 3;
RowBudget(h) ==
  h.BPlanes * (h.W \div 8) + (IF h.Masking = 1 THEN h.W \div 8 ELSE 0)

\* for (index = 0; index < (short)bmhd.H; index++) { counter = ...
RowBegin ==
  /\ pc = "row"
  /\ decoded' = TRUE
  /\ IF index < ToShort(bmhd.H)
     THEN /\ counter' = RowBudget(bmhd)
          /\ rowBase' = dest
          /\ pc' = IF bmhd.Compression = 1 THEN "run" ELSE "copy"
     ELSE /\ pc' = "convert"
          /\ UNCHANGED << counter, rowBase >>
  /\ UNCHANGED << stale, palette, scratchbuf, destbuf, handles, formtype, bmhd,
                  rawhdr, cmap, body, given, src, dest, index, rowOut,
                  palWritten, conv, reads, ret, exitAt >>

\* memcpy(to + d, from + s, len): the destination after the copy.
Memcpy(to, d, from, s, len) ==
  [i \in DOMAIN to |-> IF d <= i /\ i < d + len THEN from[s + (i - d)] ELSE to[i]]
\* memset(to + d, value, len): the destination after the fill.
Memset(to, d, value, len) ==
  [i \in DOMAIN to |-> IF d <= i /\ i < d + len THEN value % 256 ELSE to[i]]

\* "Plain data is just copied": memcpy(dest, src, counter); both advance.
CopyRow ==
  /\ pc = "copy"
  /\ IF src + counter > BufferSize \/ dest + counter > BufferSize
     THEN Overrun
     ELSE /\ scratchbuf' = Memcpy(scratchbuf, dest, destbuf, src, counter)
          /\ dest' = dest + counter
          /\ src' = src + counter
          /\ index' = index + 1
          /\ rowOut' = Append(rowOut, (dest + counter) - rowBase)
          /\ pc' = "row"
          /\ UNCHANGED << stale, palette, destbuf, handles, formtype, bmhd,
                          rawhdr, cmap, body, given, counter, rowBase,
                          palWritten, decoded, conv, reads, ret, exitAt >>

\* len = ((short) value) + 1;
LiteralLen(value) == value + 1

\* Mutant of ReplicateLen: the run is one byte short.
ReplicateLen_NoPlusOne(value) == -value
\* len = (-((short) value)) + 1;
ReplicateLen(value) == (-value) + 1

\* "Ignore the masking bitplane": the run is written when
\* bmhd.Masking != 1 || (bmhd.Masking == 1 && counter > ((short)bmhd.W >> 3))
KeepsRun(h, left) ==
  h.Masking # 1 \/ (h.Masking = 1 /\ left > (ToShort(h.W) \div 8))

\* The row loop's exit when counter is 0, else one pass of
\* while (counter) { value = (signed char) *src++; ... }
DecodeRun ==
  /\ pc = "run"
  /\ IF counter = 0
     THEN /\ index' = index + 1
          /\ rowOut' = Append(rowOut, dest - rowBase)
          /\ pc' = "row"
          /\ UNCHANGED << scratchbuf, src, dest, counter >>
     ELSE IF src >= BufferSize
     THEN pc' = "overrun" /\ UNCHANGED << scratchbuf, src, dest, counter, index, rowOut >>
     ELSE LET value == SignedChar(destbuf[src]) IN
          IF value = -128
          THEN /\ src' = src + 1
               /\ UNCHANGED << pc, scratchbuf, dest, counter, index, rowOut >>
          ELSE IF value >= 0
          THEN LET len == LiteralLen(value) IN
               IF KeepsRun(bmhd, counter)
               THEN IF src + 1 + len > BufferSize \/ dest + len > BufferSize
                    THEN pc' = "overrun"
                         /\ UNCHANGED << scratchbuf, src, dest, counter, index, rowOut >>
                    ELSE /\ scratchbuf' = Memcpy(scratchbuf, dest, destbuf, src + 1, len)
                         /\ dest' = dest + len
                         /\ counter' = counter - len
                         /\ src' = src + 1 + len
                         /\ UNCHANGED << pc, index, rowOut >>
               ELSE /\ counter' = counter - len
                    /\ src' = src + 1 + len
                    /\ UNCHANGED << pc, scratchbuf, dest, index, rowOut >>
          ELSE LET len == ReplicateLen(value) IN
               IF src + 1 >= BufferSize
               THEN pc' = "overrun"
                    /\ UNCHANGED << scratchbuf, src, dest, counter, index, rowOut >>
               ELSE IF KeepsRun(bmhd, counter)
               THEN IF dest + len > BufferSize
                    THEN pc' = "overrun"
                         /\ UNCHANGED << scratchbuf, src, dest, counter, index, rowOut >>
                    ELSE /\ scratchbuf' = Memset(scratchbuf, dest, destbuf[src + 1], len)
                         /\ dest' = dest + len
                         /\ counter' = counter - len
                         /\ src' = src + 2
                         /\ UNCHANGED << pc, index, rowOut >>
               ELSE /\ counter' = counter - len
                    /\ src' = src + 2
                    /\ UNCHANGED << pc, scratchbuf, dest, index, rowOut >>
  /\ UNCHANGED << stale, palette, destbuf, handles, formtype, bmhd, rawhdr,
                  cmap, body, given, rowBase, palWritten, decoded, conv, reads,
                  ret, exitAt >>

\* ------------------------------------------------------- ILBM_To_MCGA
\* char bytes[8]: "Byte array holding max bitplanes (8)".
MaxBitplanes == 8

\* Mutant of ILBM_Source: the end-of-row skip over the other planes is lost.
ILBM_Source_NoRowSkip(row, j, planes) == row * PresumedPlaneBytes + j
\* Where `source` points for group j of row `row` (the loop's index): source++ per group and
\* source += 40 * (planes - 1) per row.
ILBM_Source(row, j, planes) ==
  row * (PresumedPlaneBytes + PresumedPlaneBytes * (planes - 1)) + j

\* Mutant of ILBM_PlaneByte: the planes are taken one byte apart.
ILBM_PlaneByte_Adjacent(source, base, bplane) == source[base + bplane]
\* bytes[bplane] = *(source + (bplane * 40));
ILBM_PlaneByte(source, base, bplane) ==
  source[base + bplane * PresumedPlaneBytes]

\* Mutant of ILBM_Value: bytes[bplane] <<= 1 is lost, every pixel of a group
\* takes bit 7.
RECURSIVE ILBM_Value_NoShift(_, _, _, _, _)
ILBM_Value_NoShift(source, base, i, bplane, value) ==
  IF bplane < 0 THEN value
  ELSE ILBM_Value_NoShift(source, base, i, bplane - 1,
                          ((value * 2) % 256) + Bit(ILBM_PlaneByte(source, base, bplane), 7))
\* The inner loop for pixel i of a group, from plane `bplane` down to 0:
\* value <<= 1; if (bytes[bplane] & 0x80) value |= 1; bytes[bplane] <<= 1;
\* (after i shifts the top bit of bytes[bplane] is bit 7 - i of the byte read).
RECURSIVE ILBM_Value(_, _, _, _, _)
ILBM_Value(source, base, i, bplane, value) ==
  IF bplane < 0 THEN value
  ELSE ILBM_Value(source, base, i, bplane - 1,
                  ((value * 2) % 256) + Bit(ILBM_PlaneByte(source, base, bplane), 7 - i))

\* Bytes the destination cursor advances: 8 per group, 40 groups, 200 rows.
ILBM_DestAdvance == PresumedRows * PresumedPlaneBytes * 8
\* Bytes the source cursor advances.
ILBM_SourceAdvance(planes) == ILBM_Source(PresumedRows, 0, planes)

\* The destination buffer after ILBM_To_MCGA(src, dest, planes).
ILBM_To_MCGA(source, destination, planes) ==
  [k \in DOMAIN destination |->
     IF k < ILBM_DestAdvance
     THEN ILBM_Value(source,
                     ILBM_Source(k \div (8 * PresumedPlaneBytes),
                                 (k \div 8) % PresumedPlaneBytes, planes),
                     k % 8, planes - 1, 0)
     ELSE destination[k]]

\* Mem_Copy(scratchbuf.Get_Buffer(), destbuf.Get_Buffer(), 64000L): the whole
\* page.
Mem_Copy(source, destination, n) == Memcpy(destination, 0, source, 0, n)

\* switch (format) { default: case BM_MCGA: ... }
Convert ==
  /\ pc = "convert"
  /\ IF formtype = "FORM_ILBM"
     THEN IF bmhd.BPlanes > MaxBitplanes
          THEN pc' = "overrun" /\ UNCHANGED << destbuf, conv >>
          ELSE /\ destbuf' = ILBM_To_MCGA(scratchbuf, destbuf, bmhd.BPlanes)
               /\ conv' = [ran |-> TRUE, kind |-> "ILBM_To_MCGA",
                           src |-> ILBM_SourceAdvance(bmhd.BPlanes),
                           dst |-> ILBM_DestAdvance]
               /\ pc' = "close"
     ELSE /\ destbuf' = Mem_Copy(scratchbuf, destbuf, BufferSize)
          /\ conv' = [ran |-> TRUE, kind |-> "Mem_Copy",
                      src |-> BufferSize, dst |-> BufferSize]
          /\ pc' = "close"
  /\ UNCHANGED << stale, palette, scratchbuf, handles, formtype, bmhd, rawhdr,
                  cmap, body, given, src, dest, counter, index, rowBase,
                  rowOut, palWritten, decoded, reads, ret, exitAt >>

\* Close_Iff_File(fh); return((short)bmhd.BPlanes);
Close ==
  /\ pc = "close"
  /\ handles' = handles - 1
  /\ Return(ToShort(bmhd.BPlanes), "success")
  /\ UNCHANGED << stale, palette, scratchbuf, destbuf, formtype, bmhd, rawhdr,
                  cmap, body, given, src, dest, counter, index, rowBase,
                  rowOut, palWritten, decoded, conv, reads >>

\* ------------------------------------------------------------ the inputs
\* Header fields not varied by a header set.
HeaderFields(w, h, p, m, c, t) ==
  [ W |-> w, H |-> h, X |-> 2, Y |-> -3, BPlanes |-> p, Masking |-> m,
    Compression |-> c, Transparent |-> t, XAspect |-> 10, YAspect |-> 11,
    PageWidth |-> 320, PageHeight |-> 200 ]
HeaderChunk(f) == Chunk(TRUE, MakeBMHD(f))

\* Headers of every kind, valid and not, and a file without BMHD.
AllHeaders ==
  {NoChunk} \cup
  {HeaderChunk(HeaderFields(w, 1, p, m, c, t)) :
     w \in {8, 16}, p \in {1, 2}, m \in 0..3, c \in 0..2, t \in {0, 1}}

\* CMAP chunks: none, or n bytes of a pattern.
CmapData(n, seed) == [i \in 1..n |-> (seed + 67 * i) % 256]
CmapChunks ==
  {NoChunk} \cup {Chunk(TRUE, CmapData(n, seed)) : n \in 0..MaxCmap, seed \in {0, 189}}

\* BODY chunks of the header run: none, empty, or one run.
FewBodies == {NoBody} \cup RunBodies(1)

Init == InitWith(TRUE, {128})

Next ==
  \/ Probe
  \/ Fallback
  \/ OpenIff
  \/ ReadFormType(FormTags)
  \/ ReadBMHD(AllHeaders)
  \/ LoadPalette(CmapChunks)
  \/ ReadBody(FewBodies)
  \/ RowBegin
  \/ CopyRow
  \/ DecodeRun
  \/ Convert
  \/ Close

Spec == Init /\ [][Next]_vars

\* The call runs on: Load_Picture is one sequential routine, whatever
\* statement it stands at is executed.
SpecLive == Init /\ [][Next]_vars /\ WF_vars(Next)

\* ------------------------------------------- the BODY decoder's inputs
\* Valid headers of small pictures, with and without a mask plane, plain and
\* ByteRun.
BodySizes == {<< 8, 1, 1 >>, << 8, 2, 2 >>, << 16, 2, 1 >>}
BodyHeaders ==
  {HeaderChunk(HeaderFields(s[1], s[2], s[3], m, c, 0)) :
     s \in BodySizes, m \in {0, 1}, c \in {0, 1}}

BodyFormTags == {"ILBM", "8SVX"}
\* BODY chunks built from every run sequence of up to MaxRuns runs.
RunSequenceBodies == RunBodies(MaxRuns)

InitBody == InitWith(FALSE, {0})

NextBody ==
  \/ Probe
  \/ Fallback
  \/ OpenIff
  \/ ReadFormType(BodyFormTags)
  \/ ReadBMHD(BodyHeaders)
  \/ LoadPalette(CmapChunks)
  \/ ReadBody(RunSequenceBodies)
  \/ RowBegin
  \/ CopyRow
  \/ DecodeRun
  \/ Convert
  \/ Close

SpecBody == InitBody /\ [][NextBody]_vars

\* ------------------------------------------- the deinterleaver's inputs
\* The ILBM rows of a chunky raster of w x h pixels with p planes: row r holds
\* plane 0's w/8 bytes, then plane 1's, ...; bit 7 - i of plane q's byte g is
\* bit q of pixel g * 8 + i.
InterleavedByte(raster, p, w, k) ==
  LET wb == w \div 8
      r == k \div (p * wb)
      q == (k % (p * wb)) \div wb
      g == k % wb
      Px(i) == At(raster, r * w + g * 8 + i)
  IN  Bit(Px(0), q) * 128 + Bit(Px(1), q) * 64 + Bit(Px(2), q) * 32
      + Bit(Px(3), q) * 16 + Bit(Px(4), q) * 8 + Bit(Px(5), q) * 4
      + Bit(Px(6), q) * 2 + Bit(Px(7), q)
Interleave(raster, p, w, h) ==
  [k \in 1..(h * p * (w \div 8)) |-> InterleavedByte(raster, p, w, k - 1)]

\* Chunky rasters of w x h pixels of p bits: one pixel set apart from a
\* uniform background.
PixelValues(p) == {1, Pow2(p - 1), Pow2(p) - 1}
Rasters(p, w, h) ==
  {[k \in 1..(w * h) |-> IF k = pos THEN v ELSE bg] :
     pos \in 1..(w * h), v \in PixelValues(p), bg \in {0, Pow2(p) - 1}}

\* Uncompressed, unmasked headers of 1..8 planes; 8 * PresumedPlaneBytes is
\* the width ILBM_To_MCGA presumes.
ILBMWidths == {8, 16, 8 * PresumedPlaneBytes}
ILBMHeaders ==
  {HeaderChunk(HeaderFields(w, h, p, 0, 0, 0)) :
     w \in ILBMWidths, h \in 1..PresumedRows, p \in 1..MaxBitplanes}

\* The BODY of a raster fitting the header just read.
RasterBodies ==
  {BodyInput(Chunk(TRUE, Interleave(r, bmhd.BPlanes, bmhd.W, bmhd.H)), << >>, r) :
     r \in Rasters(bmhd.BPlanes, bmhd.W, bmhd.H)}

InitILBM == InitWith(FALSE, {255})

NextILBM ==
  \/ Probe
  \/ Fallback
  \/ OpenIff
  \/ ReadFormType(FormTags)
  \/ ReadBMHD(ILBMHeaders)
  \/ LoadPalette(CmapChunks)
  \/ ReadBody(RasterBodies)
  \/ RowBegin
  \/ CopyRow
  \/ Convert
  \/ Close

SpecILBM == InitILBM /\ [][NextILBM]_vars

\* ================================================================ claims
\* The row budget as the picture header states it, without the mask plane.
PlaneRowBytes == bmhd.BPlanes * (bmhd.W \div 8)
\* The runs the BODY read was built from.
runs == GivenRuns(given)
Finished == pc \in {"convert", "close", "done"}
Succeeded == pc = "done" /\ exitAt = "success"

\* C1 -- ByteRun round trip: with compression ByteRun and masking other than
\* HasMask, a stream of literal runs, replicate runs and no-op codes whose run
\* lengths fill every row's budget BPlanes*(W>>3) exactly is decoded without
\* leaving the buffers, and once the rows are done the scratch buffer holds
\* exactly the bytes the runs stand for, in order.
C1_ByteRunRoundTrip ==
  (/\ bmhd.Compression = 1
   /\ bmhd.Masking # 1
   /\ WellFormed(runs, PlaneRowBytes, bmhd.H))
  => /\ pc # "overrun"
     /\ Finished =>
          /\ dest = bmhd.H * PlaneRowBytes
          /\ \A i \in 0..(bmhd.H * PlaneRowBytes - 1) :
               scratchbuf[i] = At(Expand(runs), i)

\* C1 witness: a successful load of two rows whose stream holds a no-op, a
\* replicate run and a literal run.
C1_Witness ==
  /\ Succeeded
  /\ bmhd.Compression = 1 /\ bmhd.Masking = 0 /\ bmhd.H = 2
  /\ WellFormed(runs, PlaneRowBytes, bmhd.H)
  /\ \E a, b, c \in 1..Len(runs) :
       RunKind(runs[a]) = "noop" /\ RunKind(runs[b]) = "rep" /\ RunKind(runs[c]) = "lit"

\* C2 -- Mask-plane discard: with masking HasMask, every finished row of a
\* body whose runs fill the row budget (BPlanes+1)*(W>>3) exactly has written
\* BPlanes*(W>>3) bytes to the scratch buffer, for compression None as for
\* ByteRun.
C2_MaskPlaneDiscard ==
  (/\ bmhd.Masking = 1
   /\ \/ bmhd.Compression = 0
      \/ WellFormed(runs, PlaneRowBytes + bmhd.W \div 8, bmhd.H))
  => \A r \in 1..Len(rowOut) : rowOut[r] = PlaneRowBytes

\* C2, ByteRun alone: the same statement for compressed bodies only (a run
\* that crosses into the mask plane is written whole).
C2_MaskPlaneDiscardByteRun ==
  (/\ bmhd.Masking = 1
   /\ bmhd.Compression = 1
   /\ WellFormed(runs, PlaneRowBytes + bmhd.W \div 8, bmhd.H))
  => \A r \in 1..Len(rowOut) : rowOut[r] = PlaneRowBytes

\* C4 -- Exact row budget: in the ByteRun branch the remaining-byte counter of
\* a row is never negative, and a body with a run longer than what is left of
\* its row makes the load fail.
C4_ExactRowBudget ==
  /\ counter >= 0
  /\ (/\ pc = "done"
      /\ decoded
      /\ bmhd.Compression = 1
      /\ OverBudget(runs, RowBudget(bmhd), RowBudget(bmhd)))
     => (ret = FALSE_ /\ exitAt # "success")

\* The header was read from the file.
HeaderRead == rawhdr # << >>
FileMasking == At(rawhdr, 9)
FileCompression == At(rawhdr, 10)

\* C3 -- Invalid-value rejection: a header whose masking is above 2 or whose
\* compression is above 1 makes Load_Picture return FALSE from the masking,
\* respectively the compression, validation and never from the successful
\* return; a header with masking 0..2 and compression 0..1 is not rejected by
\* either validation.
C3_InvalidValueRejection ==
  HeaderRead =>
    /\ FileMasking > 2 => (pc = "done" /\ ret = FALSE_ /\ exitAt = "masking")
    /\ (FileMasking <= 2 /\ FileCompression > 1)
         => (pc = "done" /\ ret = FALSE_ /\ exitAt = "compression")
    /\ (FileMasking <= 2 /\ FileCompression <= 1)
         => exitAt \notin {"masking", "compression"}

\* C3 witness: a Lasso header with a supported compression has been refused.
C3_Witness ==
  /\ pc = "done" /\ exitAt = "masking" /\ ret = FALSE_
  /\ FileMasking = 3 /\ FileCompression = 1 /\ bmhd.BPlanes = 2

\* The raster the BODY read was built from.
raster == GivenRaster(given)
Deinterleaved == conv.ran /\ conv.kind = "ILBM_To_MCGA"
\* The first w * h destination bytes are the raster.
RasterReproduced ==
  \A k \in 0..(bmhd.W * bmhd.H - 1) : destbuf[k] = At(raster, k)

MinimalPicture ==
  /\ bmhd.W = 8 /\ bmhd.H = 1 /\ bmhd.BPlanes = 1
  /\ bmhd.Masking = 0 /\ bmhd.Compression = 0
  /\ body = << 1 >>
MinimalRow ==
  \A k \in 0..7 : destbuf[k] = (IF k = 7 THEN 1 ELSE 0)

\* C6 (as claimed) -- Deinterleave extent follows the header: the conversion
\* reads P*(W/8)*H scratch bytes and writes exactly W*H destination bytes; the
\* minimal picture yields the row 0,0,0,0,0,0,0,1 and nothing else is written
\* (the rest of the destination keeps what the caller left there).
C6_DeinterleaveExtentFollowsHeader ==
  Deinterleaved =>
    /\ conv.src = bmhd.BPlanes * (bmhd.W \div 8) * bmhd.H
    /\ conv.dst = bmhd.W * bmhd.H
    /\ MinimalPicture =>
         /\ MinimalRow
         /\ \A k \in 8..(BufferSize - 1) : destbuf[k] = stale

\* C6 (amended) -- the conversion always covers the presumed page, whatever
\* the header says: it advances the source by P*40 bytes and the destination
\* by 320 bytes per row for exactly 200 rows, reading P*8000 scratch bytes and
\* writing 64000 destination bytes; the minimal picture yields the row
\* 0,0,0,0,0,0,0,1 in the first 8 destination bytes.
C6_DeinterleaveExtentPresumedPage ==
  Deinterleaved =>
    /\ conv.src = bmhd.BPlanes * PresumedPlaneBytes * PresumedRows
    /\ conv.dst = 8 * PresumedPlaneBytes * PresumedRows
    /\ MinimalPicture => MinimalRow

\* C6 witness: the minimal picture has been loaded and converted, and bytes
\* past its one row were rewritten.
C6_Witness ==
  /\ Succeeded /\ Deinterleaved /\ MinimalPicture /\ MinimalRow
  /\ \E k \in 8..(BufferSize - 1) : destbuf[k] # stale

\* C7 -- Header byte order: once the header is decoded, width, height,
\* origin x, origin y, transparent-colour index, page width and page height
\* each hold the big-endian reading of their two file bytes.
C7_HeaderByteOrder ==
  HeaderRead =>
    /\ bmhd.W = FileShort(rawhdr, 0)
    /\ bmhd.H = FileShort(rawhdr, 2)
    /\ bmhd.X = ToShort(FileShort(rawhdr, 4))
    /\ bmhd.Y = ToShort(FileShort(rawhdr, 6))
    /\ bmhd.Transparent = FileShort(rawhdr, 12)
    /\ bmhd.PageWidth = ToShort(FileShort(rawhdr, 16))
    /\ bmhd.PageHeight = ToShort(FileShort(rawhdr, 18))

\* C7, the fields the code converts: the same statement without the
\* transparent-colour index.
C7_ConvertedFieldsByteOrder ==
  HeaderRead =>
    /\ bmhd.W = FileShort(rawhdr, 0)
    /\ bmhd.H = FileShort(rawhdr, 2)
    /\ bmhd.X = ToShort(FileShort(rawhdr, 4))
    /\ bmhd.Y = ToShort(FileShort(rawhdr, 6))
    /\ bmhd.PageWidth = ToShort(FileShort(rawhdr, 16))
    /\ bmhd.PageHeight = ToShort(FileShort(rawhdr, 18))

\* C8 -- Handle release: when Load_Picture has returned, by whatever exit,
\* no file handle it opened is still open.
C8_HandleRelease == pc = "done" => handles = 0

\* C8, the exits that do close: the successful return, the fallback and the
\* two failed opens leave no handle open.
C8_HandleReleaseOnClosingExits ==
  (pc = "done" /\ exitAt \in {"success", "fallback", "open_failed", "iff_open_failed"})
    => handles = 0

\* The BODY chunk the file holds.
BodyChunk == GivenChunk(given)

\* C9 (as claimed) -- Short-body silent skip: when the BODY chunk is shorter
\* than the destination buffer, the load decodes nothing, converts nothing,
\* leaves the scratch buffer alone and still returns the bitplane count.
C9_ShortBodySkip ==
  (/\ Succeeded
   /\ ChunkPresent(BodyChunk)
   /\ Len(ChunkData(BodyChunk)) < BufferSize)
  => /\ ~decoded /\ ~conv.ran
     /\ scratchbuf = Buffer(stale)
     /\ ret = bmhd.BPlanes

\* C9 (amended) -- the skip happens when no BODY byte is obtained (the chunk
\* is absent or empty): then the load decodes nothing, converts nothing,
\* leaves the scratch buffer alone and still returns the bitplane count; a
\* BODY of at least one byte, however short, is decoded and converted.
C9_EmptyBodySkip ==
  Succeeded =>
    /\ Len(body) = 0 =>
         /\ ~decoded /\ ~conv.ran
         /\ scratchbuf = Buffer(stale)
         /\ destbuf = Buffer(stale)
         /\ ret = bmhd.BPlanes
    /\ Len(body) > 0 => (decoded /\ conv.ran /\ ret = bmhd.BPlanes)

\* C9 witness: a load whose BODY chunk is present but empty has returned the
\* bitplane count without decoding.
C9_Witness ==
  /\ Succeeded
  /\ ChunkPresent(BodyChunk) /\ Len(body) = 0
  /\ ~decoded /\ ~conv.ran
  /\ ret = 2

\* C10 -- Palette conversion: with a palette buffer supplied and k bytes
\* obtained from the CMAP chunk (k at most 3 * 2^BPlanes), exactly the first k
\* bytes of the palette buffer are written, byte i being input byte i shifted
\* right by 2 (a value 0..63), and the bytes after them keep what the caller
\* left there; with k = 0 the buffer is unchanged.
C10_PaletteConversion ==
  palette # NULL =>
    /\ palWritten = Len(cmap)
    /\ HeaderRead => Len(cmap) <= 3 * Pow2(bmhd.BPlanes)
    /\ \A i \in 0..(PaletteSize - 1) :
         IF i < Len(cmap)
         THEN palette[i] = At(cmap, i) \div 4 /\ palette[i] \in 0..63
         ELSE palette[i] = stale
    /\ Len(cmap) = 0 => palette = PaletteBuffer(stale)

\* C10 witness: a load that obtained no CMAP byte left the palette buffer
\* alone, went on to the body and returned the bitplane count.
C10_Witness ==
  /\ Succeeded /\ palette # NULL
  /\ Len(cmap) = 0 /\ palWritten = 0
  /\ palette = PaletteBuffer(stale)
  /\ decoded /\ ret = bmhd.BPlanes

\* C10, a partial table: a load that obtained fewer CMAP bytes than asked for
\* converted just those and returned the bitplane count.
C10_PartialTable ==
  /\ Succeeded /\ palette # NULL
  /\ 0 < Len(cmap) /\ Len(cmap) < 3 * Pow2(bmhd.BPlanes)
  /\ \E i \in 0..(Len(cmap) - 1) : At(cmap, i) # palette[i]

\* C11 -- Bounded writes: at every point of the body decode, whatever the
\* header and the body stream, the bytes written to the scratch buffer so far
\* are at most H times the row budget, and the bytes written within the
\* current row are at most that row's budget (no write goes past what is left
\* of the row).
C11_BoundedWrites ==
  decoded =>
    /\ dest <= bmhd.H * RowBudget(bmhd)
    /\ pc \in {"run", "copy"} => dest - rowBase <= RowBudget(bmhd)
    /\ \A r \in 1..Len(rowOut) : rowOut[r] <= RowBudget(bmhd)

\* C11, streams that respect the budget: when no run is longer than what is
\* left of its row, the writes do stay within the row budgets.
C11_BoundedWritesWithinBudget ==
  (/\ decoded
   /\ bmhd.Compression = 1
   /\ ~OverBudget(runs, RowBudget(bmhd), RowBudget(bmhd))
   /\ TotalLen(runs) >= bmhd.H * RowBudget(bmhd))
  => /\ dest <= bmhd.H * RowBudget(bmhd)
     /\ \A r \in 1..Len(rowOut) : rowOut[r] <= RowBudget(bmhd)

\* The page ILBM_To_MCGA walks: its rows and its pixel columns.
PresumedRowSet == 0..(PresumedRows - 1)
PresumedColumns == 0..(8 * PresumedPlaneBytes - 1)
\* The destination byte of pixel column x of a row.
PixelAt(row, x) == destbuf[row * (8 * PresumedPlaneBytes) + x]
\* Plane p's source byte for the group of pixel column x of a row: the row's
\* planes lie one plane row apart, the group's base is the row's start plus
\* x div 8.
PlaneByteAt(row, x, p) ==
  scratchbuf[row * (bmhd.BPlanes * PresumedPlaneBytes) + (x \div 8)
             + p * PresumedPlaneBytes]

\* C12 -- ILBM pixel composition: for every plane count P in 1..8, every row
\* and every pixel column x of the page, the byte ILBM_To_MCGA wrote for the
\* pixel has bit i, for i below P, equal to bit 7 - (x mod 8) of plane i's
\* byte of the pixel's group (plane p's byte lying p plane rows after the
\* group's base), and bits P..7 equal to 0; so plane P-1 supplies the most
\* significant used bit.
C12_PixelComposition ==
  Deinterleaved =>
    \A row \in PresumedRowSet, x \in PresumedColumns, i \in 0..7 :
      Bit(PixelAt(row, x), i) =
        (IF i < bmhd.BPlanes THEN Bit(PlaneByteAt(row, x, i), 7 - (x % 8)) ELSE 0)

\* C12 witness: a three-plane page has been converted, and a pixel of its
\* second row, not the first of its group, holds 4: only plane 2, the highest,
\* contributed, over a destination that held 255 before.
C12_Witness ==
  /\ Succeeded /\ Deinterleaved
  /\ bmhd.BPlanes = 3 /\ stale = 255
  /\ \E x \in PresumedColumns :
       /\ x % 8 # 0
       /\ PixelAt(1, x) = 4
       /\ Bit(PlaneByteAt(1, x, 2), 7 - (x % 8)) = 1
       /\ Bit(PlaneByteAt(1, x, 0), 7 - (x % 8)) = 0

\* The returns of the form-type check, the BMHD read and the two validations.
ValidationExits == {"bad_form", "no_bmhd", "masking", "compression"}
\* The caller's three buffers hold what they held at the call, and neither
\* the CMAP nor the BODY chunk has been asked for.
NoOutputYet ==
  /\ palette \in {NULL, PaletteBuffer(stale)}
  /\ scratchbuf = Buffer(stale)
  /\ destbuf = Buffer(stale)
  /\ \A n \in 1..Len(reads) : reads[n] \notin {"CMAP", "BODY"}

\* C13 -- Validation precedes all output: when Load_Picture fails on an
\* unrecognised form type, a missing BMHD chunk, masking above 2 or
\* compression above 1, it returns FALSE with the caller's palette,
\* destination and scratch buffers unchanged and without a CMAP or BODY read;
\* and a file whose header carries such a masking or compression never gets
\* any of that output, at any point of the call.
C13_ValidationPrecedesOutput ==
  /\ (pc = "done" /\ exitAt \in ValidationExits) => (ret = FALSE_ /\ NoOutputYet)
  /\ (HeaderRead /\ (FileMasking > 2 \/ FileCompression > 1)) => NoOutputYet
  /\ (formtype = "none" \/ ~HeaderRead) => NoOutputYet

\* C13 witness: a caller that passed a palette buffer got FALSE for a header
\* of compression 2; only the BMHD chunk was read and the palette buffer is
\* as it was.
C13_Witness ==
  /\ pc = "done" /\ exitAt = "compression" /\ ret = FALSE_
  /\ FileCompression = 2 /\ FileMasking = 1
  /\ palette = PaletteBuffer(stale)
  /\ reads = << "BMHD" >>
  /\ NoOutputYet

\* C13, the other failures: each of the form-type, missing-BMHD and masking
\* failures is reached with a palette buffer passed.
C13_OtherFailuresReached ==
  /\ pc = "done" /\ palette # NULL /\ NoOutputYet
  /\ exitAt \in {"bad_form", "no_bmhd", "masking"}

\* The input cursor has not gone past the BODY bytes that were read.
WithinBodyData == src <= Len(body)
\* Every row of the picture has been decoded and the call has returned.
RowsDoneAndReturned == Succeeded /\ Len(rowOut) = ToShort(bmhd.H)

\* The row loop was entered for a ByteRun body.
ByteRunEntered == decoded /\ bmhd.Compression = 1

\* C14 -- Decode termination: for every valid header and every BODY byte
\* sequence (those of no-op codes only and those with a run longer than what
\* is left of its row included), once the row loop is entered the ByteRun
\* loop exits for each of the H rows and the call returns, and the decoder
\* never reads input past the end of the BODY data that was read nor leaves
\* the buffers.
C14_DecodeTermination ==
  /\ [](ByteRunEntered => WithinBodyData)
  /\ [](ByteRunEntered => pc # "overrun")
  /\ (ByteRunEntered ~> RowsDoneAndReturned)

\* C14, the three parts on their own.
C14_ReadsWithinBodyData == ByteRunEntered => WithinBodyData
C14_StaysInBuffers == ByteRunEntered => pc # "overrun"
C14_RowLoopReturns == ByteRunEntered ~> RowsDoneAndReturned

\* C14, streams that fill every row exactly: the decoder of such a stream
\* stays within the BODY data and within the buffers.
C14_WellFormedStaysWithinData ==
  (/\ decoded
   /\ bmhd.Compression = 1
   /\ WellFormed(runs, RowBudget(bmhd), bmhd.H))
  => (WithinBodyData /\ pc # "overrun")

====
